---- MODULE Spec2Model ----
(***************************************************************************)
(* Media ingestion and chunked-transcription pipeline of the lecture       *)
(* voice-to-notes generator: streamlit_app.py (main processing block),     *)
(* modules/utilities.py (extract_audio_if_video, chunk_audio_file) and     *)
(* modules/core_services.py (GeminiService._safe_gemini_call,              *)
(* _transcribe_chunk, transcribe_full_audio).                              *)
(*                                                                         *)
(* Text is a sequence of tokens.  " " is the whitespace token, every       *)
(* other token is a run of non-whitespace characters ("T" stands for       *)
(* "Transcription", "f" for "failed."), so str.strip() and + act on        *)
(* tokens as they act on characters.                                       *)
(***************************************************************************)
EXTENDS Integers, Sequences, FiniteSets, TLC

(* ---------------------------- bounds ----------------------------------- *)

\* largest number of chunks a run is explored with
MaxChunks == 3

\* largest audio duration and chunk length the segmenter alone is explored
\* with
MaxDuration == 12
MaxBound == 5

(* ------------------------ program constants ---------------------------- *)

\* utilities.py:16 -- 15 minutes in milliseconds
CHUNK_LENGTH_MS == 900000

\* core_services.py:26
max_retries == 3

\* core_services.py:27 -- initial delay in seconds
initial_delay == 1

\* core_services.py:100 -- the text "Transcription failed."
TranscriptionFailed == <<"T", " ", "f">>

\* streamlit_app.py:43 -- st.session_state.transcript = None
None == <<"None">>

(* ------------------------------ inputs --------------------------------- *)

\* texts the remote service may answer a transcription request with
Fragments ==
    { <<>>, <<" ">>, <<"T">>, <<"f">>, <<"T", " ">>, <<" ", "f">>,
      <<"T", " ", "f">> }

\* durations (ms) of the uploaded lecture: around every multiple of the
\* chunk length, as long as it splits into at most MaxChunks chunks
Durations ==
    { d \in { q * CHUNK_LENGTH_MS + r :
                q \in 0..MaxChunks, r \in {0, 1, CHUNK_LENGTH_MS - 1} } :
        d <= MaxChunks * CHUNK_LENGTH_MS }

Kinds == {"audio", "video"}

(* ------------------------------- text ---------------------------------- *)

IsSpace(c) == c = " "

RECURSIVE lstrip(_)
lstrip(s) ==
    IF s # <<>> /\ IsSpace(Head(s)) THEN lstrip(Tail(s)) ELSE s

RECURSIVE rstrip(_)
rstrip(s) ==
    IF s # <<>> /\ IsSpace(s[Len(s)])
    THEN rstrip(SubSeq(s, 1, Len(s) - 1))
    ELSE s

\* str.strip()
strip(s) == rstrip(lstrip(s))

(* ------------------------------ paths ---------------------------------- *)

input_path == <<"input", 0>>
temp_audio_path == <<"temp_audio", 0>>
chunk_name(i) == <<"chunk", i>>

(* --------------------------- pydub.make_chunks -------------------------- *)

\* a division that rounds down
Floor(a, b) == a \div b

\* ceil(a / b) for a >= 0, b > 0
Ceil(a, b) == (a + b - 1) \div b

Min(a, b) == IF a < b THEN a ELSE b

\* audio[i*len : (i+1)*len] for i in range(ceil(len(audio)/len)); a slice is
\* a record of its first and one-past-last millisecond
make_chunks(d, chunk_length) ==
    [ k \in 1..Ceil(d, chunk_length) |->
        [ lo |-> (k - 1) * chunk_length,
          hi |-> Min(k * chunk_length, d) ] ]

(* ---------------------------- exceptions -------------------------------- *)

NoExc == [ origin |-> "none", attempt |-> 0 ]

\* the exception raised by the attempt-th invocation of the operation op
OpError(op, n) == [ origin |-> op, attempt |-> n ]

NoCall == [ op |-> "none", outcomes |-> <<>>, status |-> "none",
            exc |-> NoExc, waits |-> <<>> ]

NoFile == [ name |-> 0 ]

NoExit == [ fn |-> "none", outcome |-> "none", fs |-> {}, log |-> <<>> ]

VARIABLES
    pc,                 \* position of the run
    kind,               \* "audio" | "video": what the uploaded name says
    duration,           \* length in ms of the uploaded lecture
    chunk_length,       \* length in ms the audio is cut into
    fs,                 \* paths that exist in the temporary directory
    remove_log,         \* history: paths removed by os.remove, in order
    chunk_paths,        \* the chunk list returned by chunk_audio_file
    exported,           \* history: the slice exported to each chunk file
    stage_exit,         \* history: the files on disk when the normalizer
                        \* or the segmenter last returned or raised
    total_chunks,       \* len(chunk_paths) in transcribe_full_audio
    i,                  \* loop index of transcribe_full_audio
    full_transcript,    \* accumulator of transcribe_full_audio
    uploaded_files_ref, \* the staged-file registry
    file_obj,           \* handle returned by the upload of chunk i
    remote,             \* names of the files staged at the remote service
    next_name,          \* next name the remote service assigns
    attempt,            \* loop variable of _safe_gemini_call
    delay,              \* backoff delay of _safe_gemini_call
    outcomes,           \* history: outcome of each invocation of this call
    waits,              \* history: time.sleep arguments of this call
    last_call,          \* history: the last completed _safe_gemini_call
    response,           \* text of the pending return of _transcribe_chunk
    exc,                \* pending exception inside _transcribe_chunk
    frags,              \* history: response.text of each chunk, in order
    started,            \* history: chunks handed to _transcribe_chunk
    processed,          \* history: chunks whose _transcribe_chunk ended
    delete_calls,       \* history: chunks client.files.delete was called for
    transcript,         \* st.session_state.transcript
    error,              \* the stage whose error reached the handler
    errors,             \* history: number of errors the handler received
    progress_log        \* history: fractions given to progress_bar

vars == << pc, kind, duration, chunk_length, fs, remove_log, chunk_paths,
           exported, stage_exit, delete_calls, total_chunks, i,
           full_transcript, uploaded_files_ref, file_obj, remote, next_name,
           attempt, delay, outcomes, waits, last_call, response, exc, frags,
           started, processed, transcript, error, errors,
           progress_log >>

mediaVars == << kind, duration, chunk_length >>
loopVars == << chunk_paths, exported, total_chunks, i, full_transcript >>
remoteVars == << uploaded_files_ref, file_obj, remote, next_name >>
retryVars == << attempt, delay, outcomes, waits >>
chunkVars == << response, exc, frags, started, processed, delete_calls >>

(* ------------------------------ helpers --------------------------------- *)

\* os.remove(p) guarded by os.path.exists(p); st is [fs, log]
RemoveIfExists(st, p) ==
    IF p \in st.fs
    THEN [ fs |-> st.fs \ {p}, log |-> Append(st.log, p) ]
    ELSE st

RECURSIVE RemoveAll(_, _)
\* for f in paths: if os.path.exists(f): os.remove(f)
RemoveAll(st, paths) ==
    IF paths = <<>> THEN st
    ELSE RemoveAll(RemoveIfExists(st, Head(paths)), Tail(paths))

\* streamlit_app.py:121-122
HandlerCleanup(st) ==
    RemoveIfExists(RemoveIfExists(st, input_path), temp_audio_path)

\* a handler that starts the run again
HandlerRestarts(stage, st) ==
    /\ pc' = "Idle"
    /\ error' = stage
    /\ errors' = errors
    /\ fs' = HandlerCleanup(st).fs
    /\ remove_log' = HandlerCleanup(st).log

\* streamlit_app.py:116-122 -- the except block of the processing block; st
\* is the filesystem the failing stage left behind
Handler(stage, st) ==
    /\ pc' = "Failed"
    /\ error' = stage
    /\ errors' = errors + 1
    /\ fs' = HandlerCleanup(st).fs
    /\ remove_log' = HandlerCleanup(st).log

Now == [ fs |-> fs, log |-> remove_log ]

\* fn returned or raised (outcome) and left the files of st on disk
Exit(fn, outcome, st) ==
    stage_exit' = [ fn |-> fn, outcome |-> outcome, fs |-> st.fs,
                    log |-> st.log ]

\* progress_bar.progress(value): value is the fraction num/den
Emit(num, den) == progress_log' = Append(progress_log, <<num, den>>)

(* --------------------------- _safe_gemini_call -------------------------- *)

\* a call that goes on with the retry state of the call before it
BeginCallKeeps ==
    /\ outcomes' = <<>>
    /\ waits' = <<>>
    /\ UNCHANGED << attempt, delay >>

\* core_services.py:26-29 -- a fresh call: attempt 0, delay 1
BeginCall ==
    /\ attempt' = 0
    /\ delay' = initial_delay
    /\ outcomes' = <<>>
    /\ waits' = <<>>

\* core_services.py:29 -- for attempt in range(max_retries)
InLoop == attempt < max_retries

\* a wrapper that gives up one attempt too early
ShouldRetryEarly == attempt < max_retries - 2

\* a wrapper that sleeps and goes on after the last attempt too
ShouldRetryAlways == attempt < max_retries

\* core_services.py:33
ShouldRetry == attempt < max_retries - 1

\* core_services.py:31 -- func returned: the wrapper returns its value
CallReturns(op) ==
    /\ InLoop
    /\ outcomes' = Append(outcomes, "ok")
    /\ last_call' = [ op |-> op, outcomes |-> Append(outcomes, "ok"),
                      status |-> "returned", exc |-> NoExc,
                      waits |-> waits ]
    /\ UNCHANGED << attempt, delay, waits >>

\* core_services.py:32-36 -- func raised and attempts are left: warn, sleep,
\* double the delay, next attempt
CallRetries(op) ==
    /\ InLoop
    /\ ShouldRetry
    /\ outcomes' = Append(outcomes, "err")
    /\ waits' = Append(waits, delay)
    /\ delay' = delay * 2
    /\ attempt' = attempt + 1
    /\ UNCHANGED last_call

\* the exception the wrapper lets out after the last attempt (bare raise)
Surfaced(op) == OpError(op, attempt + 1)

\* core_services.py:37-39 -- func raised on the last attempt: re-raise
CallRaises(op) ==
    /\ InLoop
    /\ ~ShouldRetry
    /\ outcomes' = Append(outcomes, "err")
    /\ last_call' = [ op |-> op, outcomes |-> Append(outcomes, "err"),
                      status |-> "raised", exc |-> Surfaced(op),
                      waits |-> waits ]
    /\ UNCHANGED << attempt, delay, waits >>

(* -------------------------------- Init ---------------------------------- *)

Init ==
    /\ pc = "Idle"
    /\ kind = "audio"
    /\ duration = 0
    /\ chunk_length = CHUNK_LENGTH_MS
    /\ exported = <<>>
    /\ stage_exit = NoExit
    /\ delete_calls = {}
    /\ fs = {}
    /\ remove_log = <<>>
    /\ chunk_paths = <<>>
    /\ total_chunks = 0
    /\ i = 0
    /\ full_transcript = <<>>
    /\ uploaded_files_ref = <<>>
    /\ file_obj = NoFile
    /\ remote = {}
    /\ next_name = 1
    /\ attempt = 0
    /\ delay = initial_delay
    /\ outcomes = <<>>
    /\ waits = <<>>
    /\ last_call = NoCall
    /\ response = <<>>
    /\ exc = NoExc
    /\ frags = <<>>
    /\ started = {}
    /\ processed = {}
    /\ transcript = None
    /\ error = "none"
    /\ errors = 0
    /\ progress_log = <<>>

(* ------------------- streamlit_app.py: start of a run ------------------- *)

\* streamlit_app.py:69-86 -- the button is pressed: clear_session, the
\* progress bar starts at 0, the upload is saved to the temporary directory
SaveUpload ==
    /\ pc = "Idle"
    /\ \E k \in Kinds, d \in Durations :
          /\ kind' = k
          /\ duration' = d
    /\ transcript' = None
    /\ fs' = fs \cup {input_path}
    /\ Emit(0, 1)
    /\ pc' = "Normalizing"
    /\ UNCHANGED << chunk_length, remove_log, loopVars, stage_exit,
                    remoteVars, retryVars, last_call, chunkVars, error,
                    errors >>

(* ------------------ utilities.py: extract_audio_if_video ---------------- *)

\* utilities.py:29-31, streamlit_app.py:88 -- not a video name: rename
NormalizeAudio ==
    /\ pc = "Normalizing"
    /\ kind = "audio"
    /\ fs' = (fs \ {input_path}) \cup {temp_audio_path}
    /\ Exit("extract_audio_if_video", "returned",
            [ fs |-> (fs \ {input_path}) \cup {temp_audio_path},
              log |-> remove_log ])
    /\ Emit(1, 10)
    /\ pc' = "Segmenting"
    /\ UNCHANGED << mediaVars, remove_log, loopVars, remoteVars, retryVars,
                    last_call, chunkVars, transcript, error, errors >>

\* utilities.py:30 -- os.rename raises: nothing was moved
NormalizeAudioFails ==
    /\ pc = "Normalizing"
    /\ kind = "audio"
    /\ Exit("extract_audio_if_video", "raised", Now)
    /\ Handler("normalizing", Now)
    /\ UNCHANGED << mediaVars, loopVars, remoteVars, retryVars, last_call,
                    chunkVars, transcript, progress_log >>

\* utilities.py:35-52, streamlit_app.py:88 -- ffmpeg succeeds, the video is
\* removed
NormalizeVideo ==
    /\ pc = "Normalizing"
    /\ kind = "video"
    /\ LET st == RemoveIfExists(
                    [ fs |-> fs \cup {temp_audio_path}, log |-> remove_log ],
                    input_path)
       IN  /\ fs' = st.fs
           /\ remove_log' = st.log
           /\ Exit("extract_audio_if_video", "returned", st)
    /\ Emit(1, 10)
    /\ pc' = "Segmenting"
    /\ UNCHANGED << mediaVars, loopVars, remoteVars, retryVars, last_call,
                    chunkVars, transcript, error, errors >>

\* utilities.py:54-66 -- ffmpeg fails (it may have begun to write its
\* output); the video is removed and the error goes to the handler
NormalizeVideoFails ==
    /\ pc = "Normalizing"
    /\ kind = "video"
    /\ \E partial \in BOOLEAN :
          LET st == RemoveIfExists(
                        [ fs |-> IF partial THEN fs \cup {temp_audio_path}
                                            ELSE fs,
                          log |-> remove_log ],
                        input_path)
          IN  /\ Exit("extract_audio_if_video", "raised", st)
              /\ Handler("normalizing", st)
    /\ UNCHANGED << mediaVars, loopVars, remoteVars, retryVars, last_call,
                    chunkVars, transcript, progress_log >>

(* --------------------- utilities.py: chunk_audio_file ------------------- *)

\* os.remove(p) of a file that exists
Remove(st, p) == [ fs |-> st.fs \ {p}, log |-> Append(st.log, p) ]

\* the paths of the first n chunks, in order (chunk_{i}_{time}.wav)
PathList(n) == [ k \in 1..n |-> chunk_name(k - 1) ]

ChunkFiles(n) == { chunk_name(k) : k \in 0..(n - 1) }

\* chunk.export wrote the first n chunk files
Written(n) == [ fs |-> fs \cup ChunkFiles(n), log |-> remove_log ]

\* core_services.py:85-89,47 -- the loop of transcribe_full_audio reaches
\* index idx: either chunk idx is handed to _transcribe_chunk, whose upload
\* starts a fresh _safe_gemini_call, or the loop is over
EnterIteration(idx, total) ==
    /\ i' = idx
    /\ IF idx < total
       THEN /\ started' = started \cup {idx}
            /\ BeginCall
            /\ pc' = "upload"
       ELSE /\ pc' = "Concatenating"
            /\ UNCHANGED << started, retryVars >>

\* utilities.py:76-102, streamlit_app.py:93-97, core_services.py:78-80 --
\* every chunk is exported, the audio file is removed, the list is returned
\* and handed to transcribe_full_audio
ChunkAudio ==
    /\ pc = "Segmenting"
    /\ LET chunks == make_chunks(duration, chunk_length)
           n == Len(chunks)
           st == Remove(Written(n), temp_audio_path)
       IN  /\ fs' = st.fs
           /\ remove_log' = st.log
           /\ Exit("chunk_audio_file", "returned", st)
           /\ exported' = chunks
           /\ chunk_paths' = PathList(n)
           /\ total_chunks' = n
           /\ full_transcript' = <<>>
           /\ uploaded_files_ref' = <<>>
           /\ Emit(1, 2)
           /\ EnterIteration(0, n)
    /\ UNCHANGED << mediaVars, file_obj, remote, next_name, last_call,
                    response, exc, frags, processed, delete_calls,
                    transcript, error, errors >>

\* utilities.py:78-79,104-117 -- the audio cannot be decoded: no chunk was
\* written, the audio file is removed, the error is raised
ChunkAudioDecodeFails ==
    /\ pc = "Segmenting"
    /\ Exit("chunk_audio_file", "raised",
            RemoveIfExists(Now, temp_audio_path))
    /\ Handler("segmenting", RemoveIfExists(Now, temp_audio_path))
    /\ UNCHANGED << mediaVars, loopVars, remoteVars, retryVars, last_call,
                    chunkVars, transcript, progress_log >>

\* utilities.py:90-96,104-117 -- the export of chunk k raises (it may have
\* begun to write its file, which is not yet in temp_chunk_files): the
\* listed chunk files and the audio file are removed, the error is raised
ChunkAudioExportFails ==
    /\ pc = "Segmenting"
    /\ \E k \in 0..(Len(make_chunks(duration, chunk_length)) - 1),
          partial \in BOOLEAN :
          LET onDisk == [ fs |-> Written(k).fs \cup
                                   (IF partial THEN {chunk_name(k)} ELSE {}),
                          log |-> remove_log ]
              cleaned == RemoveAll(onDisk, PathList(k))
              st == RemoveIfExists(cleaned, temp_audio_path)
          IN  /\ Exit("chunk_audio_file", "raised", st)
              /\ Handler("segmenting", st)
    /\ UNCHANGED << mediaVars, loopVars, remoteVars, retryVars, last_call,
                    chunkVars, transcript, progress_log >>

\* utilities.py:99,104-117 -- os.remove of the audio file raises after
\* every chunk was exported: the chunk files are removed, the audio file is
\* removed by the second os.remove, the error is raised
ChunkAudioRemoveFails ==
    /\ pc = "Segmenting"
    /\ LET n == Len(make_chunks(duration, chunk_length))
           cleaned == RemoveAll(Written(n), PathList(n))
           st == RemoveIfExists(cleaned, temp_audio_path)
       IN  /\ Exit("chunk_audio_file", "raised", st)
           /\ Handler("segmenting", st)
    /\ UNCHANGED << mediaVars, loopVars, remoteVars, retryVars, last_call,
                    chunkVars, transcript, progress_log >>

(* ------------- core_services.py: _transcribe_chunk, upload -------------- *)

\* an except block that hands back what was transcribed so far
TranscriptionFailsPartial(st) ==
    /\ transcript' = strip(full_transcript)
    /\ pc' = "Done"
    /\ UNCHANGED << error, errors >>
    /\ fs' = st.fs
    /\ remove_log' = st.log

\* core_services.py:96-100, streamlit_app.py:97-100,116-122 -- an error left
\* _transcribe_chunk: transcribe_full_audio returns "Transcription failed.",
\* the processing block stores it, raises and its handler runs
TranscriptionFails(st) ==
    /\ transcript' = TranscriptionFailed
    /\ Handler("transcribing", st)

\* core_services.py:47-50 -- client.files.upload succeeds: the service
\* stages the file under a new name and the handle is returned
UploadReturns ==
    /\ pc = "upload"
    /\ CallReturns("upload")
    /\ file_obj' = [ name |-> next_name ]
    /\ remote' = remote \cup {next_name}
    /\ next_name' = next_name + 1
    /\ pc' = "append"
    /\ UNCHANGED << mediaVars, stage_exit, fs, remove_log, loopVars,
                    uploaded_files_ref,
                    chunkVars, transcript, error, errors, progress_log >>

\* core_services.py:32-36 -- client.files.upload raises, attempts are left
UploadRetries ==
    /\ pc = "upload"
    /\ CallRetries("upload")
    /\ UNCHANGED << pc, mediaVars, stage_exit, fs, remove_log, loopVars,
                    remoteVars,
                    chunkVars, transcript, error, errors, progress_log >>

\* an upload that starts over after its last attempt instead of raising
UploadStartsOver ==
    /\ pc = "upload"
    /\ InLoop
    /\ ~ShouldRetry
    /\ BeginCall
    /\ UNCHANGED << pc, mediaVars, stage_exit, fs, remove_log, loopVars,
                    remoteVars, last_call, chunkVars, transcript, error,
                    errors, progress_log >>

\* an upload inside the try block: its error runs the finally block, which
\* calls the release and removes the local chunk file
UploadRaisesInsideTry ==
    /\ pc = "upload"
    /\ CallRaises("upload")
    /\ processed' = processed \cup {i}
    /\ delete_calls' = delete_calls \cup {i}
    /\ TranscriptionFails(RemoveIfExists(Now, chunk_paths[i + 1]))
    /\ UNCHANGED << mediaVars, stage_exit, loopVars, remoteVars, response,
                    exc, frags, started, progress_log >>

\* core_services.py:37-39,47 -- client.files.upload raises on the last
\* attempt: the error leaves _transcribe_chunk before its try block
UploadRaises ==
    /\ pc = "upload"
    /\ CallRaises("upload")
    /\ processed' = processed \cup {i}
    /\ TranscriptionFails(Now)
    /\ UNCHANGED << mediaVars, stage_exit, loopVars, remoteVars, response,
                    exc, frags, started, delete_calls, progress_log >>

\* a client that goes on to the request without registering the handle
AppendHandleSkips ==
    /\ pc = "append"
    /\ BeginCall
    /\ pc' = "generate"
    /\ UNCHANGED << mediaVars, stage_exit, fs, remove_log, loopVars,
                    remoteVars, last_call, chunkVars, transcript, error,
                    errors, progress_log >>

\* core_services.py:51,55-58 -- the handle is appended to the registry and
\* the transcription request starts a fresh _safe_gemini_call
AppendHandle ==
    /\ pc = "append"
    /\ uploaded_files_ref' = Append(uploaded_files_ref, file_obj)
    /\ BeginCall
    /\ pc' = "generate"
    /\ UNCHANGED << mediaVars, stage_exit, fs, remove_log, loopVars, file_obj,
                    remote,
                    next_name, last_call, chunkVars, transcript, error,
                    errors, progress_log >>

(* ------------ core_services.py: _transcribe_chunk, request -------------- *)

\* core_services.py:58-63 -- generate_content succeeds: response.text is the
\* pending return value, the finally block is next
GenerateReturns ==
    /\ pc = "generate"
    /\ \E text \in Fragments :
          /\ CallReturns("generate")
          /\ response' = text
          /\ frags' = Append(frags, text)
    /\ pc' = "finally"
    /\ UNCHANGED << mediaVars, stage_exit, fs, remove_log, loopVars,
                    remoteVars, exc, started, processed, delete_calls,
                    transcript, error, errors, progress_log >>

\* core_services.py:32-36 -- generate_content raises, attempts are left
GenerateRetries ==
    /\ pc = "generate"
    /\ CallRetries("generate")
    /\ UNCHANGED << pc, mediaVars, stage_exit, fs, remove_log, loopVars,
                    remoteVars,
                    chunkVars, transcript, error, errors, progress_log >>

\* core_services.py:37-39,65-67 -- generate_content raises on the last
\* attempt: the error is pending, the finally block is next
GenerateRaises ==
    /\ pc = "generate"
    /\ CallRaises("generate")
    /\ exc' = Surfaced("generate")
    /\ pc' = "finally"
    /\ UNCHANGED << mediaVars, stage_exit, fs, remove_log, loopVars,
                    remoteVars, response, frags, started, processed,
                    delete_calls, transcript, error, errors, progress_log >>

(* ------------ core_services.py: _transcribe_chunk, finally -------------- *)

\* a release that leaves the staged file at the service
FilesDeleteKeeps(name) == remote

\* core_services.py:71 -- client.files.delete(name=...) succeeds: the staged
\* files that remain at the service
FilesDelete(name) == remote \ {name}

\* core_services.py:73-74 -- the local chunk file is removed if it exists
Released == RemoveIfExists(Now, chunk_paths[i + 1])

\* an accumulation that puts the new text in front
AccumulatePrepends(acc, text) == strip(text) \o <<" ">> \o acc

\* core_services.py:92 -- full_transcript += chunk_transcript.strip() + " "
Accumulate(acc, text) == acc \o strip(text) \o <<" ">>

\* core_services.py:69-74,63,92-94,85-89 -- the finally block completes and
\* the text is returned: it is stripped and appended with a space, progress
\* is reported and the loop goes on
ReleaseThenReturn ==
    /\ pc = "finally"
    /\ exc = NoExc
    /\ delete_calls' = delete_calls \cup {i}
    /\ remote' = FilesDelete(file_obj.name)
    /\ fs' = Released.fs
    /\ remove_log' = Released.log
    /\ processed' = processed \cup {i}
    /\ full_transcript' = Accumulate(full_transcript, response)
    /\ Emit(total_chunks + i, 2 * total_chunks)
    /\ EnterIteration(i + 1, total_chunks)
    /\ UNCHANGED << mediaVars, stage_exit, chunk_paths, exported,
                    total_chunks, uploaded_files_ref, file_obj, next_name,
                    last_call, response, exc, frags, transcript, error,
                    errors >>

\* core_services.py:65-74 -- the finally block completes and the pending
\* error of the transcription request leaves _transcribe_chunk
ReleaseThenRaise ==
    /\ pc = "finally"
    /\ exc # NoExc
    /\ delete_calls' = delete_calls \cup {i}
    /\ remote' = FilesDelete(file_obj.name)
    /\ processed' = processed \cup {i}
    /\ TranscriptionFails(Released)
    /\ UNCHANGED << mediaVars, stage_exit, loopVars, uploaded_files_ref,
                    file_obj,
                    next_name, retryVars, last_call, response, exc, frags,
                    started, progress_log >>

\* core_services.py:71 -- client.files.delete raises (it is called once,
\* outside _safe_gemini_call): its error replaces the pending return or
\* error and leaves _transcribe_chunk before the local file is removed
ReleaseFails ==
    /\ pc = "finally"
    /\ delete_calls' = delete_calls \cup {i}
    /\ exc' = OpError("delete", 1)
    /\ processed' = processed \cup {i}
    /\ TranscriptionFails(Now)
    /\ UNCHANGED << mediaVars, stage_exit, loopVars, remoteVars, retryVars,
                    last_call,
                    response, frags, started, progress_log >>

(* ---------- core_services.py: transcribe_full_audio, the end ------------ *)

\* core_services.py:96, streamlit_app.py:97-102 -- the accumulated text is
\* stripped, returned and stored; it is not the failure text, so the run
\* reports "Transcription complete!"
ConcatenateDone ==
    /\ pc = "Concatenating"
    /\ strip(full_transcript) # TranscriptionFailed
    /\ transcript' = strip(full_transcript)
    /\ Emit(4, 5)
    /\ pc' = "Done"
    /\ UNCHANGED << mediaVars, stage_exit, fs, remove_log, loopVars,
                    remoteVars,
                    retryVars, last_call, chunkVars, error, errors >>

\* core_services.py:96, streamlit_app.py:97-100,116-122 -- the accumulated
\* text is stripped, returned and stored; it equals the failure text, so the
\* processing block raises and its handler runs
ConcatenateFailureText ==
    /\ pc = "Concatenating"
    /\ strip(full_transcript) = TranscriptionFailed
    /\ transcript' = strip(full_transcript)
    /\ Handler("transcribing", Now)
    /\ UNCHANGED << mediaVars, stage_exit, loopVars, remoteVars, retryVars,
                    last_call,
                    chunkVars, progress_log >>

(* ------------------------------- Next ----------------------------------- *)

Next ==
    \/ SaveUpload
    \/ NormalizeAudio
    \/ NormalizeAudioFails
    \/ NormalizeVideo
    \/ NormalizeVideoFails
    \/ ChunkAudio
    \/ ChunkAudioDecodeFails
    \/ ChunkAudioExportFails
    \/ ChunkAudioRemoveFails
    \/ UploadReturns
    \/ UploadRetries
    \/ UploadRaises
    \/ AppendHandle
    \/ GenerateReturns
    \/ GenerateRetries
    \/ GenerateRaises
    \/ ReleaseThenReturn
    \/ ReleaseThenRaise
    \/ ReleaseFails
    \/ ConcatenateDone
    \/ ConcatenateFailureText

Spec == Init /\ [][Next]_vars

\* the run is one thread that executes to its end: whenever a step of the
\* run is possible, one is taken
FairSpec == Spec /\ WF_vars(Next)

(* ------------------------- the segmenter alone -------------------------- *)

\* chunk_audio_file is about to be called on an audio file of any duration
\* up to MaxDuration, with any chunk length up to MaxBound
SegInit ==
    /\ pc = "Segmenting"
    /\ kind = "audio"
    /\ duration \in 0..MaxDuration
    /\ chunk_length \in 1..MaxBound
    /\ exported = <<>>
    /\ stage_exit = [ fn |-> "extract_audio_if_video",
                      outcome |-> "returned", fs |-> {temp_audio_path},
                      log |-> <<>> ]
    /\ delete_calls = {}
    /\ fs = {temp_audio_path}
    /\ remove_log = <<>>
    /\ chunk_paths = <<>>
    /\ total_chunks = 0
    /\ i = 0
    /\ full_transcript = <<>>
    /\ uploaded_files_ref = <<>>
    /\ file_obj = NoFile
    /\ remote = {}
    /\ next_name = 1
    /\ attempt = 0
    /\ delay = initial_delay
    /\ outcomes = <<>>
    /\ waits = <<>>
    /\ last_call = NoCall
    /\ response = <<>>
    /\ exc = NoExc
    /\ frags = <<>>
    /\ started = {}
    /\ processed = {}
    /\ transcript = None
    /\ error = "none"
    /\ errors = 0
    /\ progress_log = << <<0, 1>>, <<1, 10>> >>

SegNext == ChunkAudio

SegmenterSpec == SegInit /\ [][SegNext]_vars

(* ------------------------------ stages ---------------------------------- *)

InChunk == pc \in {"upload", "append", "generate", "finally"}

\* the orchestrator state the position belongs to
Stage == IF InChunk THEN "Transcribing" ELSE pc

Ended == pc \in {"Done", "Failed"}

TypeOK ==
    /\ pc \in {"Idle", "Normalizing", "Segmenting", "upload", "append",
               "generate", "finally", "Concatenating", "Done", "Failed"}
    /\ kind \in Kinds
    /\ attempt \in 0..(max_retries - 1)
    /\ i \in 0..MaxChunks
    /\ total_chunks \in 0..MaxChunks
    /\ Len(frags) <= total_chunks
    /\ errors \in 0..1

(* ============================ properties =============================== *)

Count(log, p) == Cardinality({ k \in 1..Len(log) : log[k] = p })

AllErr(o) == \A k \in 1..Len(o) : o[k] = "err"

\* fragment[0] + " " + fragment[1] + ... + " " + fragment[n-1]
RECURSIVE JoinSpace(_)
JoinSpace(fr) ==
    IF fr = <<>> THEN <<>>
    ELSE IF Len(fr) = 1 THEN fr[1]
    ELSE fr[1] \o <<" ">> \o JoinSpace(Tail(fr))

StripEach(fr) == [ k \in 1..Len(fr) |-> strip(fr[k]) ]

\* C1 -- a completed _safe_gemini_call that returned was invoked k+1 times,
\* k in 0..2, the first k invocations failing and the last succeeding, and
\* its caller holds the value the operation produced; one that raised was
\* invoked exactly 3 times, all failing, and surfaced the exception of the
\* operation's own 3rd invocation; a call in progress has seen only failures
RetryWrapperContract ==
    /\ last_call.status = "returned" =>
          /\ Len(last_call.outcomes) \in 1..3
          /\ last_call.outcomes[Len(last_call.outcomes)] = "ok"
          /\ AllErr(SubSeq(last_call.outcomes, 1,
                           Len(last_call.outcomes) - 1))
    /\ last_call.status = "raised" =>
          /\ Len(last_call.outcomes) = 3
          /\ AllErr(last_call.outcomes)
          /\ last_call.exc = OpError(last_call.op, 3)
    /\ pc \in {"upload", "generate"} =>
          /\ Len(outcomes) = attempt
          /\ Len(outcomes) <= 2
          /\ AllErr(outcomes)
    /\ pc = "append" => file_obj.name \in remote
    /\ (pc = "finally" /\ exc = NoExc) => response = frags[Len(frags)]
    /\ (pc = "finally" /\ exc # NoExc) => exc = OpError("generate", 3)

\* C1 witness: a transcription request failed twice, then succeeded
FailedTwiceThenReturned ==
    /\ pc = "finally"
    /\ last_call.op = "generate"
    /\ last_call.outcomes = <<"err", "err", "ok">>

\* C2 -- at most one staged file exists at the remote service, and none
\* exists while a chunk is being uploaded
AtMostOneStaged ==
    /\ Cardinality(remote) <= 1
    /\ pc = "upload" => remote = {}

\* C2 witness: a later chunk is staged after the earlier one was released
SecondChunkStaged ==
    /\ pc = "generate"
    /\ i = 1
    /\ remote = {file_obj.name}
    /\ Len(uploaded_files_ref) = 2

\* C3 -- as claimed: the registry is empty once the run is Done or Failed
RegistryEmptyAtEnd == Ended => uploaded_files_ref = <<>>

\* C4 -- as claimed: once _transcribe_chunk returned or raised for a chunk,
\* its local file is absent and was removed exactly once
ChunkFileGoneAfterClient ==
    \A k \in processed :
        /\ chunk_name(k) \notin fs
        /\ Count(remove_log, chunk_name(k)) = 1

\* C5 -- as claimed: no local file of the run exists once it is Done or
\* Failed
NoLocalFileAtEnd == Ended => fs = {}

\* C6 -- as claimed: once the processing of a chunk returned or raised, the
\* file staged for it is no longer at the remote service
StagedFileReleased == ~InChunk => remote = {}

\* C7 -- as claimed: the transcript of a Done run is
\* trim(fragment[0] + " " + ... + " " + fragment[n-1])
TranscriptIsTrimmedJoin ==
    pc = "Done" => transcript = strip(JoinSpace(frags))

\* C7 amended -- the transcript of a Done run is the trimmed join, with
\* single spaces and in chunk order, of the trimmed fragments
TranscriptIsJoinOfTrimmed ==
    pc = "Done" =>
        /\ Len(frags) = total_chunks
        /\ transcript = strip(JoinSpace(StripEach(frags)))

\* C7 witness: a Done run of three chunks, one of whose requests was retried
\* and one of whose fragments ends in white space
DoneWithThreeFragments ==
    /\ pc = "Done"
    /\ Len(frags) = 3
    /\ frags[1] = <<"T", " ">>
    /\ frags[2] = <<"f">>
    /\ Len(last_call.outcomes) > 1

\* C8 -- a failed run stopped at the failing stage: after a normalizer or
\* segmenter error no chunk list exists and no chunk was handed to the
\* transcription client; after a chunk's error no later chunk was started
\* or staged; the handler received one error; the stored transcript is
\* absent or the failure text; once a remote call or a release raised, the
\* run is only in the finally block or Failed, and a Done run received no
\* error and transcribed every chunk
HaltsAtFirstError ==
    /\ error \in {"normalizing", "segmenting"} =>
          /\ chunk_paths = <<>>
          /\ started = {}
          /\ next_name = 1
    /\ error = "normalizing" => fs \cap ChunkFiles(MaxChunks + 1) = {}
    /\ pc = "Failed" =>
          /\ errors = 1
          /\ error # "none"
          /\ transcript \in {None, TranscriptionFailed}
          /\ started \subseteq 0..i
          /\ next_name - 1 <= Cardinality(started)
          /\ processed = started
    /\ pc # "Failed" => (errors = 0 /\ error = "none")
    /\ (last_call.status = "raised" \/ exc # NoExc) =>
          pc \in {"finally", "Failed"}
    /\ pc = "Done" =>
          /\ processed = 0..(total_chunks - 1)
          /\ Len(frags) = total_chunks

\* C8 witness: the second of three chunks failed after its retries, with a
\* first fragment already transcribed and the third chunk never started
SecondOfThreeFailed ==
    /\ pc = "Failed"
    /\ error = "transcribing"
    /\ total_chunks = 3
    /\ i = 1
    /\ Len(frags) = 1
    /\ last_call.status = "raised"
    /\ 2 \notin started

\* C9 -- as claimed: a run whose normalizer and segmenter succeeded and in
\* which no remote call failed on all of its attempts ends Done, with the
\* transcript of the failure-free run and no local file left
RecoveredRunCompletes ==
    (/\ Ended
     /\ error \notin {"normalizing", "segmenting"}
     /\ last_call.status # "raised") =>
        /\ pc = "Done"
        /\ transcript = strip(JoinSpace(StripEach(frags)))
        /\ fs = {}

StageRank(st) ==
    CASE st = "Idle" -> 0
      [] st = "Normalizing" -> 1
      [] st = "Segmenting" -> 2
      [] st = "Transcribing" -> 3
      [] st = "Concatenating" -> 4
      [] st = "Done" -> 5
      [] OTHER -> 6

\* one step of the run in the order of the state machine
StageStep ==
    \/ /\ Stage' = Stage
       /\ ~Ended
       /\ i' = i
    \/ /\ Stage = "Transcribing"
       /\ Stage' = "Transcribing"
       /\ i' = i + 1
       /\ i \in processed'
       /\ pc' = "upload"
    \/ /\ ~Ended
       /\ Stage' = "Failed"
    \/ /\ Stage # "Transcribing"
       /\ StageRank(Stage) < 5
       /\ StageRank(Stage') = StageRank(Stage) + 1
       /\ Stage' = "Transcribing" => (i' = 0 /\ pc' = "upload")
    \/ /\ Stage = "Segmenting"
       /\ Stage' = "Concatenating"
       /\ total_chunks' = 0
    \/ /\ Stage = "Transcribing"
       /\ Stage' = "Concatenating"
       /\ i = total_chunks - 1
       /\ processed' = 0..(total_chunks - 1)

\* C10 -- the run moves only along Idle, Normalizing, Segmenting,
\* Transcribing(0..n-1), Concatenating, Done, chunk i before chunk i+1, or
\* from a non-terminal state to Failed; nothing follows Done or Failed
StageOrder == [][StageStep]_vars

\* C10 witness: a run of three chunks went through every stage to Done
ThreeChunksDone ==
    /\ pc = "Done"
    /\ total_chunks = 3
    /\ processed = {0, 1, 2}

RECURSIVE SumDurations(_)
SumDurations(sl) ==
    IF sl = <<>> THEN 0
    ELSE (Head(sl).hi - Head(sl).lo) + SumDurations(Tail(sl))

\* C11 -- when chunk_audio_file has returned for an audio of duration D cut
\* at length B, it exported exactly ceil(D/B) slices, to the chunk paths in
\* order; the slices start at 0, each begins where the one before ends, the
\* last ends at D, each lasts at most B and all but the last exactly B, and
\* their durations sum to D
SegmentsCoverAudio ==
    (stage_exit.fn = "chunk_audio_file" /\ stage_exit.outcome = "returned") =>
        LET n == Len(exported)
            D == duration
            B == chunk_length
        IN  /\ n * B >= D
            /\ n > 0 => (n - 1) * B < D
            /\ chunk_paths = [ k \in 1..n |-> chunk_name(k - 1) ]
            /\ \A k \in 1..n : chunk_paths[k] \in stage_exit.fs
            /\ n > 0 => (exported[1].lo = 0 /\ exported[n].hi = D)
            /\ \A k \in 1..(n - 1) : exported[k + 1].lo = exported[k].hi
            /\ \A k \in 1..n :
                  /\ exported[k].hi - exported[k].lo > 0
                  /\ exported[k].hi - exported[k].lo <= B
            /\ \A k \in 1..(n - 1) : exported[k].hi - exported[k].lo = B
            /\ SumDurations(exported) = D

\* C11 witness: three slices were exported, the last one shorter than the
\* chunk length
ThreeSlicesLastShorter ==
    /\ stage_exit.fn = "chunk_audio_file"
    /\ Len(exported) = 3
    /\ exported[3].hi - exported[3].lo < chunk_length
    /\ exported[3].hi = duration

\* C12 -- as claimed: when chunk_audio_file raised, no chunk file (the one
\* being written included) and no audio file was on disk as the error left
\* it, and no chunk list was returned
SegmenterCleansUp ==
    (stage_exit.fn = "chunk_audio_file" /\ stage_exit.outcome = "raised") =>
        /\ \A p \in stage_exit.fs : p[1] # "chunk"
        /\ temp_audio_path \notin stage_exit.fs
        /\ chunk_paths = <<>>

\* C13 -- as claimed: when extract_audio_if_video returned or raised, the
\* source path no longer exists; if it returned the destination exists, if
\* it raised the destination is absent and was never removed
NormalizerConsumesSource ==
    stage_exit.fn = "extract_audio_if_video" =>
        /\ input_path \notin stage_exit.fs
        /\ stage_exit.outcome = "returned" =>
              temp_audio_path \in stage_exit.fs
        /\ stage_exit.outcome = "raised" =>
              /\ temp_audio_path \notin stage_exit.fs
              /\ Count(stage_exit.log, temp_audio_path) = 0

\* fractions <<numerator, denominator>> with positive denominators
FracSub(x, y) == << x[1] * y[2] - y[1] * x[2], x[2] * y[2] >>
FracEq(x, y) == x[1] * y[2] = y[1] * x[2]
FracLeq(x, y) == x[1] * y[2] <= y[1] * x[2]

\* the emissions before the first chunk: 0, 0.1 and 0.5
BeforeChunks == 3

\* number of "chunks complete" emissions so far
Completions ==
    IF Len(progress_log) <= BeforeChunks THEN 0
    ELSE IF pc = "Done" THEN Len(progress_log) - BeforeChunks - 1
    ELSE Len(progress_log) - BeforeChunks

\* what the k-th completion adds to the fraction emitted before it
Advance(k) ==
    FracSub(progress_log[BeforeChunks + k], progress_log[BeforeChunks + k - 1])

\* C14 -- as claimed: every emitted fraction lies in [0,1] and every
\* completed chunk advances the emitted fraction by the same amount
ProgressEvenlySpaced ==
    /\ \A k \in 1..Len(progress_log) :
          /\ FracLeq(<<0, 1>>, progress_log[k])
          /\ FracLeq(progress_log[k], <<1, 1>>)
    /\ \A j, k \in 1..Completions : FracEq(Advance(j), Advance(k))

\* C15 -- as claimed: a remote call of a chunk (upload, request, delete)
\* makes the chunk fail only after 3 failed attempts of that call
EveryRemoteCallRetried ==
    /\ last_call.status = "raised" => Len(last_call.outcomes) = 3
    /\ exc # NoExc => exc.attempt = 3

NumErr(o) == Cardinality({ k \in 1..Len(o) : o[k] = "err" })

IsPrefix(w, full) == Len(w) <= Len(full) /\ w = SubSeq(full, 1, Len(w))

\* the sleeps w that go with the invocation outcomes o of one call
WaitsFit(w, o) ==
    /\ IsPrefix(w, <<1, 2, 4>>)
    /\ Len(w) = Min(NumErr(o), 2)

\* C16 -- the waits of one _safe_gemini_call are a prefix of 1s, 2s, 4s:
\* one wait after each failed attempt while fewer than 3 attempts were made,
\* none after the 3rd failed attempt
BackoffWaits ==
    /\ pc \in {"upload", "generate"} => WaitsFit(waits, outcomes)
    /\ last_call # NoCall => WaitsFit(last_call.waits, last_call.outcomes)

\* C16 witness: a call raised after its 3rd failed attempt, having waited
\* 1s and 2s
RaisedAfterTwoWaits ==
    /\ last_call.status = "raised"
    /\ last_call.waits = <<1, 2>>
    /\ pc = "Failed"

RECURSIVE Pow2(_)
Pow2(n) == IF n = 0 THEN 1 ELSE 2 * Pow2(n - 1)

\* C17 -- a _safe_gemini_call that has not invoked its operation yet is at
\* attempt 0 with delay 1 and no wait, whatever the call before it used, and
\* after k failed invocations it is at attempt k with delay 2^k
RetryStateIsPerCall ==
    pc \in {"upload", "generate"} =>
        /\ outcomes = <<>> => (attempt = 0 /\ delay = 1 /\ waits = <<>>)
        /\ attempt = NumErr(outcomes)
        /\ delay = Pow2(NumErr(outcomes))

\* C17 witness: the upload needed 3 attempts and the transcription request
\* that follows it reached its own 3rd attempt
RequestKeepsThreeAttempts ==
    /\ pc = "generate"
    /\ last_call.op = "upload"
    /\ Len(last_call.outcomes) = 3
    /\ outcomes = <<"err", "err">>
    /\ attempt = 2

\* C18 -- every run ends Done or Failed, and no call invokes its operation
\* more than 3 times: at most 3 uploads, 3 requests and 1 release per chunk
RunTerminates ==
    /\ <>Ended
    /\ [](Len(outcomes) <= 3 /\ Len(last_call.outcomes) <= 3)

\* C18 witness: a run of three chunks ended after a call used all 3 attempts
EndedAfterThreeAttempts ==
    /\ Ended
    /\ total_chunks = 3
    /\ Len(last_call.outcomes) = 3
    /\ processed = {0, 1, 2}

\* C19 -- the step in which an upload exhausts its retries ends the run with
\* the error and changes nothing else: the registry, the staged files (there
\* are none) and the files on disk stay as they were, the chunk file is
\* still there and was never removed, and no release was called for the
\* chunk
StagingFailureStep ==
    (pc = "upload" /\ pc' = "Failed") =>
        /\ error' = "transcribing"
        /\ last_call'.op = "upload"
        /\ last_call'.status = "raised"
        /\ uploaded_files_ref' = uploaded_files_ref
        /\ Len(uploaded_files_ref') = i
        /\ remote' = remote
        /\ remote' = {}
        /\ i \notin delete_calls'
        /\ fs' = fs
        /\ remove_log' = remove_log
        /\ chunk_paths[i + 1] \in fs'
        /\ Count(remove_log', chunk_paths[i + 1]) = 0

StagingFailureChangesNothing == [][StagingFailureStep]_vars

\* C19 witness: the upload of the second chunk exhausted its retries
SecondUploadExhausted ==
    /\ pc = "Failed"
    /\ last_call.op = "upload"
    /\ last_call.status = "raised"
    /\ i = 1
    /\ chunk_name(1) \in fs
    /\ Len(uploaded_files_ref) = 1

\* C20 -- while the transcription request or the finally block of a chunk
\* runs, the chunk's handle is the last entry of the registry; between the
\* upload's return and the append no remote call is made
HandleRegisteredBeforeUse ==
    /\ pc \in {"generate", "finally"} =>
          /\ Len(uploaded_files_ref) = i + 1
          /\ uploaded_files_ref[i + 1] = file_obj
    /\ pc = "append" =>
          /\ last_call.op = "upload"
          /\ last_call.status = "returned"
          /\ outcomes = last_call.outcomes
          /\ i \notin delete_calls
          /\ Len(uploaded_files_ref) = i
    /\ last_call.op = "generate" =>
          \E k \in 1..Len(uploaded_files_ref) :
              uploaded_files_ref[k] = file_obj

\* C20 witness: the request of the second chunk was issued, and failed
\* once, with both handles in the registry
SecondRequestOverRegisteredHandle ==
    /\ pc = "generate"
    /\ i = 1
    /\ outcomes = <<"err">>
    /\ Len(uploaded_files_ref) = 2
    /\ uploaded_files_ref[2] = file_obj

\* C21 -- as claimed: the emitted progress fractions never decrease over
\* one run, the 4/5 of "Transcription complete!" after the last chunk's
\* emission included
ProgressNonDecreasing ==
    \A k \in 1..(Len(progress_log) - 1) :
        FracLeq(progress_log[k], progress_log[k + 1])

\* some chunk's _transcribe_chunk raised: a wrapped call exhausted its
\* retries or the release in the finally block failed
ChunkRaised == last_call.status = "raised" \/ exc # NoExc

\* C22 -- as claimed: a run has failed at the transcription stage exactly
\* when some chunk's processing raised; a run whose chunks all returned a
\* fragment is not failed, whatever the fragments are
TranscriptionFailedIffChunkRaised ==
    Ended => ((pc = "Failed" /\ error = "transcribing") <=> ChunkRaised)

====
